---- MODULE Spec2Model ----
(***************************************************************************)
(* Model of the NodeInfo reconciler of vkubeviewer                         *)
(* (controllers/nodeinfo_controller.go) together with the environment it   *)
(* talks to: the declarative-resource store, the vSphere inventory and     *)
(* the server-side container views.                                        *)
(*                                                                         *)
(* One Reconcile invocation is split at its calls to the outside world     *)
(* (Get, CreateContainerView, Retrieve, the property collector, Status     *)
(* Update); the loop over the retrieved virtual machines and over their    *)
(* network references is kept step by step.  Every step that leaves        *)
(* Reconcile runs the deferred vvm.Destroy of line 99 as part of the step. *)
(***************************************************************************)
EXTENDS Integers, Sequences, FiniteSets, TLC

(***************************************************************************)
(* Bounds of the model.                                                    *)
(***************************************************************************)
\* longest inventory (number of virtual machines returned by Retrieve)
MaxVMs == 2
\* number of Reconcile invocations started per resource
MaxCycles == 2
\* number of times the inventory changes under the reconciler
MaxInvChanges == 2

(***************************************************************************)
(* Program constants.                                                      *)
(***************************************************************************)
\* ctrl.Result{RequeueAfter: time.Duration(1) * time.Minute}, in minutes
RequeueMinutes == 1

(***************************************************************************)
(* Data: the status sub-record of a NodeInfo, virtual machines, network    *)
(* references and the managed objects the references point to.             *)
(***************************************************************************)
\* node.Status of a freshly created NodeInfo: every field has Go's zero value
ZeroStatus ==
  [VMGuestId |-> "", VMTotalCPU |-> 0, VMResvdCPU |-> 0, VMTotalMem |-> 0,
   VMResvdMem |-> 0, VMPowerState |-> "", VMHwVersion |-> "",
   VMIpAddress |-> "", PathToVM |-> "", SwitchType |-> "", NetName |-> "",
   NetOverallStatus |-> "", VlanId |-> 0]

\* types.ManagedObjectReference values found in vm.Network
RefStd    == [Type |-> "Network", Value |-> "network-11"]
RefDvs    == [Type |-> "DistributedVirtualPortgroup", Value |-> "dvportgroup-21"]
RefTrunk  == [Type |-> "DistributedVirtualPortgroup", Value |-> "dvportgroup-22"]
RefPvlan  == [Type |-> "DistributedVirtualPortgroup", Value |-> "dvportgroup-23"]
RefOpaque == [Type |-> "OpaqueNetwork", Value |-> "opaque-31"]

\* the managed object behind a reference, as the property collector loads it:
\* mo.Network fields, and for a port group Config.DefaultPortConfig with the
\* dynamic type of the port setting and of its Vlan member
NetworkObject(ref) ==
  CASE ref = RefStd ->
         [Name |-> "VM Network", OverallStatus |-> "green",
          PortSetting |-> "none", VlanSpec |-> "none", VlanId |-> 0]
    [] ref = RefDvs ->
         [Name |-> "dv-pg-1025", OverallStatus |-> "yellow",
          PortSetting |-> "VMwareDVSPortSetting",
          VlanSpec |-> "VlanIdSpec", VlanId |-> 1025]
    [] ref = RefTrunk ->
         [Name |-> "dv-pg-trunk", OverallStatus |-> "yellow",
          PortSetting |-> "VMwareDVSPortSetting",
          VlanSpec |-> "TrunkVlanSpec", VlanId |-> 0]
    [] ref = RefPvlan ->
         [Name |-> "dv-pg-pvlan", OverallStatus |-> "red",
          PortSetting |-> "VMwareDVSPortSetting",
          VlanSpec |-> "PvlanSpec", VlanId |-> 0]
    [] OTHER ->
         [Name |-> "nsx-segment", OverallStatus |-> "gray",
          PortSetting |-> "none", VlanSpec |-> "none", VlanId |-> 0]

\* the two hardware shapes a virtual machine of the inventory can have
VMShape(k) ==
  IF k = 1
  THEN [GuestId |-> "ubuntu64Guest", NumCpu |-> 4, CpuReservation |-> 0,
        MemorySizeMB |-> 8192, MemoryReservation |-> 0,
        PowerState |-> "poweredOn", HwVersion |-> "vmx-15",
        IpAddress |-> "10.0.0.4", VmPathName |-> "[ds1] a/a.vmx"]
  ELSE [GuestId |-> "rhel8_64Guest", NumCpu |-> 2, CpuReservation |-> 500,
        MemorySizeMB |-> 4096, MemoryReservation |-> 1024,
        PowerState |-> "poweredOff", HwVersion |-> "vmx-17",
        IpAddress |-> "10.0.0.9", VmPathName |-> "[ds2] b/b.vmx"]

\* mo.VirtualMachine: Summary.Config.Name, the summary scalars and Network
VM(name, k, network) ==
  [Name |-> name, Summary |-> VMShape(k), Network |-> network]

\* the virtual machines the inventory is made of
VMCatalogue ==
  { VM("node-a", 1, <<RefStd>>),
    VM("node-a", 2, <<RefDvs>>),
    VM("node-a", 1, <<RefTrunk>>),
    VM("node-a", 2, <<RefPvlan>>),
    VM("node-a", 1, <<RefOpaque>>),
    VM("node-a", 2, <<>>),
    VM("node-a", 1, <<RefStd, RefDvs>>),
    VM("node-b", 2, <<RefStd>>) }

RECURSIVE SeqsUpTo(_, _)
\* every sequence over S of length at most n
SeqsUpTo(S, n) ==
  IF n = 0 THEN {<<>>}
  ELSE LET shorter == SeqsUpTo(S, n - 1)
       IN  shorter \cup {Append(s, x) : s \in {t \in shorter : Len(t) = n - 1}, x \in S}

\* the results a bulk retrieval can deliver
Inventories == SeqsUpTo(VMCatalogue, MaxVMs)

(***************************************************************************)
(* State.                                                                  *)
(***************************************************************************)
VARIABLES
  store,        \* the NodeInfo resources of the API server: spec, status, existence
  inventory,    \* the virtual machines of vCenter, in the order Retrieve returns them
  invChanges,   \* how often the inventory has changed so far
  openViews,    \* handles of the container views that exist on the server
  nextView,     \* the handle the next created container view gets
  pc,           \* per resource: where its Reconcile invocation stands
  node,         \* per resource: Reconcile's local node (spec and status)
  vvm,          \* per resource: Reconcile's local view handle, 0 when there is none
  vms,          \* per resource: Reconcile's local vms, the retrieved machines
  i,            \* per resource: position of "for _, vm := range vms"
  j,            \* per resource: position of "for _, ref := range vm.Network", 0 outside it
  cycles,       \* per resource: number of invocations started
  prior,        \* per resource: the stored status when the invocation started
  writes,       \* per resource: status writes performed by the current invocation
  result,       \* per resource: what the last invocation handed to the runtime
  main,         \* the process: where main stands, its exit code, what is registered
  session,      \* the vSphere session: the two clients of vlogin and the logins made
  ctxDone,      \* per resource: where the invocation stood when the runtime
                \* cancelled the context it passed to Reconcile, "no" if it did not
  prev          \* per resource: what the invocation before the current one retrieved,
                \* if it committed

vars == <<store, inventory, invChanges, openViews, nextView, pc, node, vvm,
          vms, i, j, cycles, prior, writes, result, main, session, ctxDone, prev>>

\* the resources the runtime dispatches Reconcile for
Resources == DOMAIN store

\* a NodeInfo as created by its owner: a target name and an empty status
NewNodeInfo(nodename) ==
  [Spec |-> [Nodename |-> nodename], Status |-> ZeroStatus, exists |-> TRUE]

\* nothing handed to the runtime yet
NoResult == [outcome |-> "none", err |-> "nil", RequeueAfter |-> 0]

\* main has not left a step of its own yet
NotFailed == "none"

\* the process at the first statement of main
MainAtStart ==
  [pc |-> "NewManager", exit |-> 0, failed |-> NotFailed, registered |-> {}]

\* no client of vlogin exists yet
NoSession == [c1 |-> FALSE, c2 |-> FALSE, logins |-> 0]

\* vlogin returned c1 (cached-session login) and c2 (govmomi.NewClient)
EstablishedSession == [c1 |-> TRUE, c2 |-> TRUE, logins |-> 2]

\* the four reconcilers main registers with the manager, in this order
Controllers == <<"FCDInfo", "NodeInfo", "HostInfo", "DatastoreInfo">>

\* the process inside mgr.Start: session established, reconcilers registered
MainRunning ==
  [pc |-> "Running", exit |-> 0, failed |-> NotFailed,
   registered |-> {Controllers[n] : n \in 1..Len(Controllers)}]

\* no invocation before the current one committed
NoPrev == [committed |-> FALSE, vms |-> <<>>]

\* every Reconcile for the resources R is idle with empty locals, no view exists
IdleFor(R) ==
  /\ invChanges = 0
  /\ openViews = {}
  /\ nextView = 1
  /\ pc = [r \in R |-> "Idle"]
  /\ node = [r \in R |-> [Spec |-> [Nodename |-> ""], Status |-> ZeroStatus]]
  /\ vvm = [r \in R |-> 0]
  /\ vms = [r \in R |-> <<>>]
  /\ i = [r \in R |-> 0]
  /\ j = [r \in R |-> 0]
  /\ cycles = [r \in R |-> 0]
  /\ prior = [r \in R |-> ZeroStatus]
  /\ writes = [r \in R |-> 0]
  /\ result = [r \in R |-> NoResult]
  /\ ctxDone = [r \in R |-> "no"]
  /\ prev = [r \in R |-> NoPrev]

\* the state before the first invocation for the resources R: vCenter holds
\* no machine yet, the manager runs with the session vlogin established
InitFor(R) ==
  /\ inventory = <<>>
  /\ main = MainRunning
  /\ session = EstablishedSession
  /\ IdleFor(R)

\* one NodeInfo named after node-a
Init ==
  /\ store = [r \in {"nodeinfo-a"} |-> NewNodeInfo("node-a")]
  /\ InitFor({"nodeinfo-a"})

(***************************************************************************)
(* Leaving Reconcile.                                                      *)
(***************************************************************************)
\* DeferredDestroy with the defer of line 99 lost: the view stays
NoDestroy(r) == openViews

\* "defer vvm.Destroy(ctx)": the view of this invocation, if one was created,
\* is destroyed when the function is left
DeferredDestroy(r) == openViews \ {vvm[r]}

\* "return ctrl.Result{...}, err", with the deferred call
Return(r, err, requeue) ==
  /\ openViews' = DeferredDestroy(r)
  /\ vvm' = [vvm EXCEPT ![r] = 0]
  /\ pc' = [pc EXCEPT ![r] = "Idle"]
  /\ result' = [result EXCEPT ![r] =
                  [outcome |-> "returned", err |-> err, RequeueAfter |-> requeue]]

\* a run-time panic unwinds Reconcile: the deferred call runs, nothing is returned
Panic(r) ==
  /\ openViews' = DeferredDestroy(r)
  /\ vvm' = [vvm EXCEPT ![r] = 0]
  /\ pc' = [pc EXCEPT ![r] = "Idle"]
  /\ result' = [result EXCEPT ![r] =
                  [outcome |-> "panic", err |-> "nil", RequeueAfter |-> 0]]

(***************************************************************************)
(* Reconcile, lines 59-111: fetch the resource, create the view, retrieve. *)
(***************************************************************************)
\* entering Reconcile: fresh locals ("node := &topologyv1.NodeInfo{}",
\* "var vms") and the bookkeeping of a new invocation
Enter(r) ==
  /\ main.pc = "Running"
  /\ pc[r] = "Idle"
  /\ cycles[r] < MaxCycles
  /\ ctxDone' = [ctxDone EXCEPT ![r] = "no"]
  /\ prev' = [prev EXCEPT ![r] =
               IF result[r].outcome = "returned" /\ result[r].err = "nil"
                  /\ writes[r] = 1
               THEN [committed |-> TRUE, vms |-> vms[r]]
               ELSE NoPrev]
  /\ cycles' = [cycles EXCEPT ![r] = @ + 1]
  /\ prior' = [prior EXCEPT ![r] = store[r].Status]
  /\ writes' = [writes EXCEPT ![r] = 0]
  /\ vms' = [vms EXCEPT ![r] = <<>>]
  /\ i' = [i EXCEPT ![r] = 0]
  /\ j' = [j EXCEPT ![r] = 0]

\* the empty NodeInfo that Get fills in
EmptyNode == [Spec |-> [Nodename |-> ""], Status |-> ZeroStatus]

\* r.Client.Get succeeds: node is the stored resource
GetOk(r) ==
  /\ Enter(r)
  /\ store[r].exists
  /\ node' = [node EXCEPT ![r] = [Spec |-> store[r].Spec, Status |-> store[r].Status]]
  /\ pc' = [pc EXCEPT ![r] = "CreateView"]
  /\ result' = [result EXCEPT ![r] = NoResult]
  /\ UNCHANGED <<main, session, store, inventory, invChanges, openViews, nextView, vvm>>

\* GetNotFound that asks for the next invocation a minute later
GetNotFoundRequeues(r) ==
  /\ Enter(r)
  /\ ~store[r].exists
  /\ node' = [node EXCEPT ![r] = EmptyNode]
  /\ Return(r, "nil", RequeueMinutes)
  /\ UNCHANGED <<main, session, store, inventory, invChanges, nextView>>

\* r.Client.Get reports NotFound: client.IgnoreNotFound turns it into nil
GetNotFound(r) ==
  /\ Enter(r)
  /\ ~store[r].exists
  /\ node' = [node EXCEPT ![r] = EmptyNode]
  /\ Return(r, "nil", 0)
  /\ UNCHANGED <<main, session, store, inventory, invChanges, nextView>>

\* r.Client.Get fails otherwise: the error is returned
GetErr(r) ==
  /\ Enter(r)
  /\ node' = [node EXCEPT ![r] = EmptyNode]
  /\ Return(r, "GetErr", 0)
  /\ UNCHANGED <<main, session, store, inventory, invChanges, nextView>>

\* m.CreateContainerView succeeds: a view exists on the server
CreateViewOk(r) ==
  /\ pc[r] = "CreateView"
  /\ vvm' = [vvm EXCEPT ![r] = nextView]
  /\ openViews' = openViews \cup {nextView}
  /\ nextView' = nextView + 1
  /\ pc' = [pc EXCEPT ![r] = "Retrieve"]
  /\ UNCHANGED <<main, session, ctxDone, prev, store, inventory, invChanges, node, vms, i, j, cycles, prior,
                 writes, result>>

\* m.CreateContainerView fails: return before the defer is registered
CreateViewErr(r) ==
  /\ pc[r] = "CreateView"
  /\ Return(r, "ViewErr", 0)
  /\ UNCHANGED <<main, session, ctxDone, prev, store, inventory, invChanges, nextView, node, vms, i, j,
                 cycles, prior, writes>>

\* vvm.Retrieve succeeds: vms is the inventory of this moment
RetrieveOk(r) ==
  /\ pc[r] = "Retrieve"
  /\ vms' = [vms EXCEPT ![r] = inventory]
  /\ i' = [i EXCEPT ![r] = 1]
  /\ j' = [j EXCEPT ![r] = 0]
  /\ pc' = [pc EXCEPT ![r] = "Range"]
  /\ UNCHANGED <<main, session, ctxDone, prev, store, inventory, invChanges, openViews, nextView, node, vvm,
                 cycles, prior, writes, result>>

\* RetrieveErr that also resets the stored status before returning the error
RetrieveErrClears(r) ==
  /\ pc[r] = "Retrieve"
  /\ store' = [store EXCEPT ![r].Status = ZeroStatus]
  /\ Return(r, "RetrieveErr", 0)
  /\ UNCHANGED <<main, session, ctxDone, prev, inventory, invChanges, nextView, node, vms, i, j,
                 cycles, prior, writes>>

\* RetrieveErr that takes the failure for an expired session and logs in
\* again before returning the error
RetrieveErrRelogin(r) ==
  /\ pc[r] = "Retrieve"
  /\ session' = [session EXCEPT !.logins = @ + 1]
  /\ Return(r, "RetrieveErr", 0)
  /\ UNCHANGED <<main, ctxDone, prev, store, inventory, invChanges, nextView,
                 node, vms, i, j, cycles, prior, writes>>

\* vvm.Retrieve fails: the error is returned
RetrieveErr(r) ==
  /\ pc[r] = "Retrieve"
  /\ Return(r, "RetrieveErr", 0)
  /\ UNCHANGED <<main, session, ctxDone, prev, store, inventory, invChanges, nextView, node, vms, i, j,
                 cycles, prior, writes>>

(***************************************************************************)
(* Reconcile, lines 118-179: the loop over vms and over vm.Network.        *)
(***************************************************************************)
\* the machine the outer loop stands at
CurVM(r) == vms[r][i[r]]

\* StoreVMInfo with "+=" for "=" at line 124: the CPU count piles up on the
\* stored one
StoreVMInfoAdds(st, vm) ==
  [st EXCEPT !.VMGuestId = vm.Summary.GuestId,
             !.VMTotalCPU = @ + vm.Summary.NumCpu,
             !.VMResvdCPU = vm.Summary.CpuReservation,
             !.VMTotalMem = vm.Summary.MemorySizeMB,
             !.VMResvdMem = vm.Summary.MemoryReservation,
             !.VMPowerState = vm.Summary.PowerState,
             !.VMHwVersion = vm.Summary.HwVersion,
             !.VMIpAddress = vm.Summary.IpAddress,
             !.PathToVM = vm.Summary.VmPathName]

\* lines 123-131: the nine summary scalars are copied into node.Status
StoreVMInfo(st, vm) ==
  [st EXCEPT !.VMGuestId = vm.Summary.GuestId,
             !.VMTotalCPU = vm.Summary.NumCpu,
             !.VMResvdCPU = vm.Summary.CpuReservation,
             !.VMTotalMem = vm.Summary.MemorySizeMB,
             !.VMResvdMem = vm.Summary.MemoryReservation,
             !.VMPowerState = vm.Summary.PowerState,
             !.VMHwVersion = vm.Summary.HwVersion,
             !.VMIpAddress = vm.Summary.IpAddress,
             !.PathToVM = vm.Summary.VmPathName]

\* lines 138, 150-151: a standard network fills three fields
StoreNetwork(st, n) ==
  [st EXCEPT !.SwitchType = "Standard",
             !.NetName = n.Name,
             !.NetOverallStatus = n.OverallStatus]

\* StorePortgroup with line 173 lost: the VLAN id is not stored
StorePortgroupNoVlan(st, pg) ==
  [st EXCEPT !.SwitchType = "Distributed",
             !.NetName = pg.Name,
             !.NetOverallStatus = pg.OverallStatus]

\* lines 155, 167-173: a distributed port group fills four fields
StorePortgroup(st, pg) ==
  [st EXCEPT !.SwitchType = "Distributed",
             !.NetName = pg.Name,
             !.NetOverallStatus = pg.OverallStatus,
             !.VlanId = pg.VlanId]

\* pc.Retrieve(ctx, vm.Network, nil, &n) asks for every reference of the
\* machine but loads into one struct: govmomi's loader takes one result and
\* panics ("more than 1 result") on several
LoadsOne(refs) == Len(refs) = 1

\* lines 171-172: both unchecked type assertions succeed
VlanIdSpecAsserted(pg) ==
  pg.PortSetting = "VMwareDVSPortSetting" /\ pg.VlanSpec = "VlanIdSpec"

\* SkipVM with the comparison of line 120 lost: the scalars of a machine of
\* another name are stored
SkipVMStores(r) ==
  /\ pc[r] = "Range" /\ j[r] = 0 /\ i[r] <= Len(vms[r])
  /\ CurVM(r).Name # node[r].Spec.Nodename
  /\ node' = [node EXCEPT ![r].Status = StoreVMInfo(@, CurVM(r))]
  /\ i' = [i EXCEPT ![r] = @ + 1]
  /\ UNCHANGED <<main, session, ctxDone, prev, store, inventory, invChanges, openViews, nextView, pc, vvm,
                 vms, j, cycles, prior, writes, result>>

\* line 120 is false: the machine has another name
SkipVM(r) ==
  /\ pc[r] = "Range" /\ j[r] = 0 /\ i[r] <= Len(vms[r])
  /\ CurVM(r).Name # node[r].Spec.Nodename
  /\ i' = [i EXCEPT ![r] = @ + 1]
  /\ UNCHANGED <<main, session, ctxDone, prev, store, inventory, invChanges, openViews, nextView, pc, node,
                 vvm, vms, j, cycles, prior, writes, result>>

\* MatchVM with the status write moved into the loop: the scalars are
\* written to the store as soon as a machine matches
MatchVMCommits(r) ==
  /\ pc[r] = "Range" /\ j[r] = 0 /\ i[r] <= Len(vms[r])
  /\ CurVM(r).Name = node[r].Spec.Nodename
  /\ node' = [node EXCEPT ![r].Status = StoreVMInfo(@, CurVM(r))]
  /\ store' = [store EXCEPT ![r].Status = StoreVMInfo(node[r].Status, CurVM(r))]
  /\ writes' = [writes EXCEPT ![r] = 1]
  /\ j' = [j EXCEPT ![r] = 1]
  /\ UNCHANGED <<main, session, ctxDone, prev, inventory, invChanges,
                 openViews, nextView, pc, vvm, vms, i, cycles, prior, result>>

\* line 120 is true: the scalars are stored and the network loop starts
MatchVM(r) ==
  /\ pc[r] = "Range" /\ j[r] = 0 /\ i[r] <= Len(vms[r])
  /\ CurVM(r).Name = node[r].Spec.Nodename
  /\ node' = [node EXCEPT ![r].Status = StoreVMInfo(@, CurVM(r))]
  /\ j' = [j EXCEPT ![r] = 1]
  /\ UNCHANGED <<main, session, ctxDone, prev, store, inventory, invChanges, openViews, nextView, pc, vvm,
                 vms, i, cycles, prior, writes, result>>

\* the reference the inner loop stands at
CurRef(r) == CurVM(r).Network[j[r]]

\* the inner loop stands at a reference
AtRef(r) ==
  /\ pc[r] = "Range" /\ j[r] >= 1 /\ j[r] <= Len(CurVM(r).Network)

\* lines 135-151: a standard network whose properties are retrieved
StandardRetrieve(r) ==
  /\ AtRef(r)
  /\ CurRef(r).Type = "Network"
  /\ LoadsOne(CurVM(r).Network)
  /\ node' = [node EXCEPT ![r].Status =
                StoreNetwork(@, NetworkObject(CurVM(r).Network[1]))]
  /\ j' = [j EXCEPT ![r] = @ + 1]
  /\ UNCHANGED <<main, session, ctxDone, prev, store, inventory, invChanges, openViews, nextView, pc, vvm,
                 vms, i, cycles, prior, writes, result>>

\* lines 143-147: the retrieval for a standard network fails
StandardRetrieveErr(r) ==
  /\ AtRef(r)
  /\ CurRef(r).Type = "Network"
  /\ node' = [node EXCEPT ![r].Status.SwitchType = "Standard"]
  /\ Return(r, "NetworkErr", 0)
  /\ UNCHANGED <<main, session, ctxDone, prev, store, inventory, invChanges, nextView, vms, i, j, cycles,
                 prior, writes>>

\* lines 152-173: a port group with a single VLAN id
DistributedRetrieve(r) ==
  /\ AtRef(r)
  /\ CurRef(r).Type = "DistributedVirtualPortgroup"
  /\ LoadsOne(CurVM(r).Network)
  /\ VlanIdSpecAsserted(NetworkObject(CurVM(r).Network[1]))
  /\ node' = [node EXCEPT ![r].Status =
                StorePortgroup(@, NetworkObject(CurVM(r).Network[1]))]
  /\ j' = [j EXCEPT ![r] = @ + 1]
  /\ UNCHANGED <<main, session, ctxDone, prev, store, inventory, invChanges, openViews, nextView, pc, vvm,
                 vms, i, cycles, prior, writes, result>>

\* DistributedRetrieveErr that writes what was mapped so far before
\* returning the error
DistributedRetrieveErrCommits(r) ==
  /\ AtRef(r)
  /\ CurRef(r).Type = "DistributedVirtualPortgroup"
  /\ node' = [node EXCEPT ![r].Status.SwitchType = "Distributed"]
  /\ store' = [store EXCEPT ![r].Status = node[r].Status]
  /\ Return(r, "DVPortGroupErr", 0)
  /\ UNCHANGED <<main, session, ctxDone, prev, inventory, invChanges, nextView, vms, i, j, cycles,
                 prior, writes>>

\* lines 160-164: the retrieval for a port group fails
DistributedRetrieveErr(r) ==
  /\ AtRef(r)
  /\ CurRef(r).Type = "DistributedVirtualPortgroup"
  /\ node' = [node EXCEPT ![r].Status.SwitchType = "Distributed"]
  /\ Return(r, "DVPortGroupErr", 0)
  /\ UNCHANGED <<main, session, ctxDone, prev, store, inventory, invChanges, nextView, vms, i, j, cycles,
                 prior, writes>>

\* lines 171-172: the port setting or its Vlan member has another dynamic
\* type (trunk, private VLAN), the type assertion panics
VlanAssertPanic(r) ==
  /\ AtRef(r)
  /\ CurRef(r).Type = "DistributedVirtualPortgroup"
  /\ LoadsOne(CurVM(r).Network)
  /\ ~VlanIdSpecAsserted(NetworkObject(CurVM(r).Network[1]))
  /\ LET pg == NetworkObject(CurVM(r).Network[1])
     IN  node' = [node EXCEPT ![r].Status =
                    [@ EXCEPT !.SwitchType = "Distributed",
                              !.NetName = pg.Name,
                              !.NetOverallStatus = pg.OverallStatus]]
  /\ Panic(r)
  /\ UNCHANGED <<main, session, ctxDone, prev, store, inventory, invChanges, nextView, vms, i, j, cycles,
                 prior, writes>>

\* lines 142, 159: the machine has several networks, loading them into one
\* struct panics
LoadPanic(r) ==
  /\ AtRef(r)
  /\ CurRef(r).Type \in {"Network", "DistributedVirtualPortgroup"}
  /\ ~LoadsOne(CurVM(r).Network)
  /\ node' = [node EXCEPT ![r].Status.SwitchType =
                IF CurRef(r).Type = "Network" THEN "Standard" ELSE "Distributed"]
  /\ Panic(r)
  /\ UNCHANGED <<main, session, ctxDone, prev, store, inventory, invChanges, nextView, vms, i, j, cycles,
                 prior, writes>>

\* lines 135, 152: a reference of any other type matches no branch
OtherRef(r) ==
  /\ AtRef(r)
  /\ CurRef(r).Type \notin {"Network", "DistributedVirtualPortgroup"}
  /\ j' = [j EXCEPT ![r] = @ + 1]
  /\ UNCHANGED <<main, session, ctxDone, prev, store, inventory, invChanges, openViews, nextView, pc, node,
                 vvm, vms, i, cycles, prior, writes, result>>

\* line 176: the inner loop is over, the outer loop goes on
RefsDone(r) ==
  /\ pc[r] = "Range" /\ j[r] >= 1 /\ j[r] > Len(CurVM(r).Network)
  /\ j' = [j EXCEPT ![r] = 0]
  /\ i' = [i EXCEPT ![r] = @ + 1]
  /\ UNCHANGED <<main, session, ctxDone, prev, store, inventory, invChanges, openViews, nextView, pc, node,
                 vvm, vms, cycles, prior, writes, result>>

\* line 179: the outer loop is over
RangeDone(r) ==
  /\ pc[r] = "Range" /\ j[r] = 0 /\ i[r] > Len(vms[r])
  /\ pc' = [pc EXCEPT ![r] = "Update"]
  /\ UNCHANGED <<main, session, ctxDone, prev, store, inventory, invChanges, openViews, nextView, node, vvm,
                 vms, i, j, cycles, prior, writes, result>>

(***************************************************************************)
(* Reconcile, lines 186-191: the status write and the requeue.             *)
(***************************************************************************)
\* UpdateOk that returns an empty Result: no requeue is requested
UpdateOkNoRequeue(r) ==
  /\ pc[r] = "Update"
  /\ store[r].exists
  /\ store' = [store EXCEPT ![r].Status = node[r].Status]
  /\ writes' = [writes EXCEPT ![r] = @ + 1]
  /\ Return(r, "nil", 0)
  /\ UNCHANGED <<main, session, ctxDone, prev, inventory, invChanges, nextView,
                 node, vms, i, j, cycles, prior>>

\* UpdateOk that loses the key of the request: the status goes to every
\* NodeInfo of the store
UpdateOkAll(r) ==
  /\ pc[r] = "Update"
  /\ store[r].exists
  /\ store' = [q \in DOMAIN store |-> [store[q] EXCEPT !.Status = node[r].Status]]
  /\ writes' = [writes EXCEPT ![r] = @ + 1]
  /\ Return(r, "nil", RequeueMinutes)
  /\ UNCHANGED <<main, session, ctxDone, prev, inventory, invChanges, nextView,
                 node, vms, i, j, cycles, prior>>

\* r.Status().Update succeeds: the stored status becomes node.Status
UpdateOk(r) ==
  /\ pc[r] = "Update"
  /\ store[r].exists
  /\ store' = [store EXCEPT ![r].Status = node[r].Status]
  /\ writes' = [writes EXCEPT ![r] = @ + 1]
  /\ Return(r, "nil", RequeueMinutes)
  /\ UNCHANGED <<main, session, ctxDone, prev, inventory, invChanges, nextView, node, vms, i, j, cycles, prior>>

\* UpdateErr that asks for the requeue of line 191 along with the error
UpdateErrRequeues(r) ==
  /\ pc[r] = "Update"
  /\ Return(r, "UpdateErr", RequeueMinutes)
  /\ UNCHANGED <<main, session, ctxDone, prev, store, inventory, invChanges,
                 nextView, node, vms, i, j, cycles, prior, writes>>

\* r.Status().Update fails: the error is returned with an empty Result
UpdateErr(r) ==
  /\ pc[r] = "Update"
  /\ Return(r, "UpdateErr", 0)
  /\ UNCHANGED <<main, session, ctxDone, prev, store, inventory, invChanges, nextView, node, vms, i, j,
                 cycles, prior, writes>>

(***************************************************************************)
(* The environment.                                                        *)
(***************************************************************************)
\* the inventory without its k-th machine
RemoveAt(inv, k) ==
  [n \in 1..(Len(inv) - 1) |-> IF n < k THEN inv[n] ELSE inv[n + 1]]

\* vCenter: a machine is created
AddVM ==
  /\ invChanges < MaxInvChanges
  /\ Len(inventory) < MaxVMs
  /\ invChanges' = invChanges + 1
  /\ \E vm \in VMCatalogue : inventory' = Append(inventory, vm)
  /\ UNCHANGED <<main, session, ctxDone, prev, store, openViews, nextView, pc, node, vvm, vms, i, j, cycles,
                 prior, writes, result>>

\* vCenter: a machine is removed
RemoveVM ==
  /\ invChanges < MaxInvChanges
  /\ invChanges' = invChanges + 1
  /\ \E k \in 1..Len(inventory) : inventory' = RemoveAt(inventory, k)
  /\ UNCHANGED <<main, session, ctxDone, prev, store, openViews, nextView, pc, node, vvm, vms, i, j, cycles,
                 prior, writes, result>>

\* vCenter: a machine is renamed, resized or moved to another network
ReconfigureVM ==
  /\ invChanges < MaxInvChanges
  /\ invChanges' = invChanges + 1
  /\ \E k \in 1..Len(inventory) : \E vm \in VMCatalogue \ {inventory[k]} :
       inventory' = [inventory EXCEPT ![k] = vm]
  /\ UNCHANGED <<main, session, ctxDone, prev, store, openViews, nextView, pc, node, vvm, vms, i, j, cycles,
                 prior, writes, result>>

\* the owner deletes the NodeInfo
DeleteResource(r) ==
  /\ store[r].exists
  /\ store' = [store EXCEPT ![r].exists = FALSE]
  /\ UNCHANGED <<main, session, ctxDone, prev, inventory, invChanges, openViews, nextView, pc, node, vvm,
                 vms, i, j, cycles, prior, writes, result>>

\* every step of every Reconcile invocation, and of the environment
Next ==
  \/ \E r \in Resources : GetOk(r)
  \/ \E r \in Resources : GetNotFound(r)
  \/ \E r \in Resources : GetErr(r)
  \/ \E r \in Resources : CreateViewOk(r)
  \/ \E r \in Resources : CreateViewErr(r)
  \/ \E r \in Resources : RetrieveOk(r)
  \/ \E r \in Resources : RetrieveErr(r)
  \/ \E r \in Resources : SkipVM(r)
  \/ \E r \in Resources : MatchVM(r)
  \/ \E r \in Resources : StandardRetrieve(r)
  \/ \E r \in Resources : StandardRetrieveErr(r)
  \/ \E r \in Resources : DistributedRetrieve(r)
  \/ \E r \in Resources : DistributedRetrieveErr(r)
  \/ \E r \in Resources : VlanAssertPanic(r)
  \/ \E r \in Resources : LoadPanic(r)
  \/ \E r \in Resources : OtherRef(r)
  \/ \E r \in Resources : RefsDone(r)
  \/ \E r \in Resources : RangeDone(r)
  \/ \E r \in Resources : UpdateOk(r)
  \/ \E r \in Resources : UpdateErr(r)
  \/ \E r \in Resources : DeleteResource(r)
  \/ AddVM
  \/ RemoveVM
  \/ ReconfigureVM

Spec == Init /\ [][Next]_vars

\* the shape of the state
TypeOK ==
  /\ inventory \in Inventories
  /\ invChanges \in 0..MaxInvChanges
  /\ \A r \in Resources :
       /\ pc[r] \in {"Idle", "CreateView", "Retrieve", "Range", "Update"}
       /\ cycles[r] \in 0..MaxCycles
       /\ vvm[r] \in 0..(nextView - 1)
       /\ writes[r] \in 0..1

(***************************************************************************)
(* What a finished invocation is measured against.                         *)
(***************************************************************************)
\* positions of the retrieved machines whose name is the target name
Matches(r) ==
  {k \in 1..Len(vms[r]) : vms[r][k].Name = node[r].Spec.Nodename}

\* largest and smallest member of a non-empty set of positions
Last(S) == CHOOSE k \in S : \A m \in S : m <= k
First(S) == CHOOSE k \in S : \A m \in S : k <= m

\* the invocation of r is over: it returned nil after writing the status
Committed(r) ==
  /\ pc[r] = "Idle"
  /\ result[r].outcome = "returned"
  /\ result[r].err = "nil"
  /\ writes[r] = 1

\* the machine has exactly one network reference, of the given type
SingleRef(vm, type) ==
  Len(vm.Network) = 1 /\ vm.Network[1].Type = type

\* lines 122-176 for one matched machine that Reconcile gets through:
\* the status after the body of the "if" on top of the status st
Mapped(st, vm) ==
  LET s1 == StoreVMInfo(st, vm)
  IN  IF SingleRef(vm, "Network")
      THEN StoreNetwork(s1, NetworkObject(vm.Network[1]))
      ELSE IF SingleRef(vm, "DistributedVirtualPortgroup")
           THEN StorePortgroup(s1, NetworkObject(vm.Network[1]))
           ELSE s1

RECURSIVE MappedAll(_, _, _)
\* lines 118-179: the body applied to every machine called name, in order
MappedAll(st, vmseq, name) ==
  IF vmseq = <<>> THEN st
  ELSE MappedAll(IF Head(vmseq).Name = name THEN Mapped(st, Head(vmseq)) ELSE st,
                 Tail(vmseq), name)

(***************************************************************************)
(* C1: when no retrieved machine carries the target name, the stored       *)
(* status of the resource is, during and after the invocation, exactly     *)
(* the status it had when the invocation started.                          *)
(***************************************************************************)
C1_NoMatchKeepsStatus ==
  \A r \in Resources :
    (i[r] >= 1 /\ Matches(r) = {}) =>
      /\ store[r].Status = prior[r]
      /\ node[r].Status = prior[r]

\* a non-empty status survived a committed invocation that matched nothing
\* among the machines it retrieved
C1_Witness ==
  \E r \in Resources :
    /\ Committed(r)
    /\ vms[r] # <<>> /\ Matches(r) = {}
    /\ prior[r] # ZeroStatus
    /\ store[r].Status = prior[r]

(***************************************************************************)
(* C2: when several retrieved machines carry the target name, the          *)
(* committed status is the one derived from the first of them; the later   *)
(* ones contribute no field.                                               *)
(***************************************************************************)
C2_FirstMatchWins ==
  \A r \in Resources :
    (Committed(r) /\ Matches(r) # {}) =>
      store[r].Status = Mapped(prior[r], vms[r][First(Matches(r))])

(***************************************************************************)
(* C3: the status committed by an invocation that matched is a function    *)
(* of the retrieved machines alone: it is what the same machines yield     *)
(* from an empty status, whatever the status was before.                   *)
(***************************************************************************)
C3_StatusFromInventoryOnly ==
  \A r \in Resources :
    (Committed(r) /\ Matches(r) # {}) =>
      store[r].Status = MappedAll(ZeroStatus, vms[r], node[r].Spec.Nodename)

(***************************************************************************)
(* C4: when the machine the status is taken from has one reference, of     *)
(* type "Network", the committed status has SwitchType "Standard" and      *)
(* VlanId 0, whatever VlanId was stored before.                            *)
(***************************************************************************)
C4_StandardHasNoVlan ==
  \A r \in Resources :
    (/\ Committed(r)
     /\ Matches(r) # {}
     /\ SingleRef(vms[r][Last(Matches(r))], "Network")) =>
      /\ store[r].Status.SwitchType = "Standard"
      /\ store[r].Status.VlanId = 0

(***************************************************************************)
(* C5: an invocation that ends at a port group whose default port          *)
(* configuration carries a trunk or private-VLAN specification ends by     *)
(* returning an error to the runtime, without a status write.              *)
(***************************************************************************)
\* the invocation of r ended while standing at a reference of this kind
EndedAtTrunkOrPvlan(r) ==
  /\ pc[r] = "Idle"
  /\ i[r] \in 1..Len(vms[r])
  /\ j[r] \in 1..Len(CurVM(r).Network)
  /\ SingleRef(CurVM(r), "DistributedVirtualPortgroup")
  /\ NetworkObject(CurRef(r)).VlanSpec \in {"TrunkVlanSpec", "PvlanSpec"}

C5_TrunkReportsError ==
  \A r \in Resources :
    EndedAtTrunkOrPvlan(r) =>
      /\ result[r].outcome = "returned"
      /\ result[r].err # "nil"
      /\ writes[r] = 0
      /\ store[r].Status = prior[r]

(***************************************************************************)
(* C6: when the machine the status is taken from has one reference, a      *)
(* port group with a single VLAN id v, the committed status has            *)
(* SwitchType "Distributed", the port group's name and overall status,     *)
(* and VlanId v.                                                           *)
(***************************************************************************)
C6_DistributedSingleVlan ==
  \A r \in Resources :
    (/\ Committed(r)
     /\ Matches(r) # {}
     /\ SingleRef(vms[r][Last(Matches(r))], "DistributedVirtualPortgroup")) =>
      LET pg == NetworkObject(vms[r][Last(Matches(r))].Network[1])
      IN  /\ pg.VlanSpec = "VlanIdSpec"
          /\ store[r].Status.SwitchType = "Distributed"
          /\ store[r].Status.NetName = pg.Name
          /\ store[r].Status.NetOverallStatus = pg.OverallStatus
          /\ store[r].Status.VlanId = pg.VlanId

\* a status with VLAN 1025 was committed over a status of a standard network
C6_Witness ==
  \E r \in Resources :
    /\ Committed(r)
    /\ Matches(r) # {}
    /\ SingleRef(vms[r][Last(Matches(r))], "DistributedVirtualPortgroup")
    /\ prior[r].SwitchType = "Standard"
    /\ store[r].Status.VlanId = 1025

(***************************************************************************)
(* C7: an invocation that matched a machine holding a reference whose      *)
(* type is neither "Network" nor "DistributedVirtualPortgroup" does not    *)
(* end in success: the unknown kind is reported as an error.               *)
(***************************************************************************)
\* some matched machine holds a reference of an unknown kind
MatchedUnknownKind(r) ==
  \E k \in Matches(r) : \E n \in 1..Len(vms[r][k].Network) :
    vms[r][k].Network[n].Type \notin {"Network", "DistributedVirtualPortgroup"}

C7_UnknownKindReported ==
  \A r \in Resources :
    (/\ pc[r] = "Idle"
     /\ result[r].outcome = "returned"
     /\ i[r] > Len(vms[r])
     /\ MatchedUnknownKind(r)) =>
      result[r].err # "nil"

(***************************************************************************)
(* C8: every container view that exists on the server belongs to an        *)
(* invocation that is still running; an invocation that has not created    *)
(* a view, or is over, holds none.                                         *)
(***************************************************************************)
C8_ViewsDestroyed ==
  /\ \A h \in openViews :
       \E r \in Resources : pc[r] \in {"Retrieve", "Range", "Update"} /\ vvm[r] = h
  /\ \A r \in Resources : pc[r] \in {"Idle", "CreateView"} => vvm[r] = 0

\* two invocations created a view each, the second one panicked, no view is left
C8_Witness ==
  \E r \in Resources :
    /\ pc[r] = "Idle"
    /\ result[r].outcome = "panic"
    /\ nextView = 3
    /\ openViews = {}

(***************************************************************************)
(* C9: an invocation whose view creation or bulk retrieval failed is       *)
(* over with that error returned and an empty Result, has written no       *)
(* status, and the stored status is the one from before the invocation.    *)
(***************************************************************************)
C9_RetrievalErrorKeepsStatus ==
  \A r \in Resources :
    result[r].err \in {"ViewErr", "RetrieveErr"} =>
      /\ pc[r] = "Idle"
      /\ result[r].outcome = "returned"
      /\ result[r].RequeueAfter = 0
      /\ writes[r] = 0
      /\ store[r].Status = prior[r]
      /\ vms[r] = <<>>

\* the bulk retrieval failed over a status committed earlier
C9_Witness ==
  \E r \in Resources :
    /\ result[r].err = "RetrieveErr"
    /\ prior[r] # ZeroStatus
    /\ store[r].Status = prior[r]
    /\ inventory # <<>>

(***************************************************************************)
(* C10: an invocation whose property retrieval for a network or a port     *)
(* group failed is over with that error returned, has written no status,   *)
(* and the stored status is the one from before the invocation.            *)
(***************************************************************************)
C10_NetworkErrorNoCommit ==
  \A r \in Resources :
    result[r].err \in {"NetworkErr", "DVPortGroupErr"} =>
      /\ pc[r] = "Idle"
      /\ result[r].outcome = "returned"
      /\ result[r].RequeueAfter = 0
      /\ writes[r] = 0
      /\ store[r].Status = prior[r]

\* the scalars of the matched machine were mapped in memory and differ from
\* what is stored, and the retrieval of its port group failed
C10_Witness ==
  \E r \in Resources :
    /\ result[r].err = "DVPortGroupErr"
    /\ prior[r] # ZeroStatus
    /\ node[r].Status.VMTotalCPU # store[r].Status.VMTotalCPU
    /\ node[r].Status.VMTotalCPU = CurVM(r).Summary.NumCpu

(***************************************************************************)
(* C11: an invocation whose fetch and status write succeeded is over with  *)
(* a nil error and RequeueAfter of exactly one minute, whether or not a    *)
(* machine matched and whether or not the written status differs from the  *)
(* one before.                                                             *)
(***************************************************************************)
C11_SuccessRequeuesOneMinute ==
  \A r \in Resources :
    (pc[r] = "Idle" /\ writes[r] = 1) =>
      /\ result[r].outcome = "returned"
      /\ result[r].err = "nil"
      /\ result[r].RequeueAfter = RequeueMinutes
      /\ RequeueMinutes = 1

\* a committed invocation that matched nothing and changed nothing asks for
\* the requeue
C11_Witness ==
  \E r \in Resources :
    /\ Committed(r)
    /\ vms[r] # <<>> /\ Matches(r) = {}
    /\ store[r].Status = prior[r]
    /\ result[r].RequeueAfter = 1

(***************************************************************************)
(* C12: an invocation that ended with an error returned it with a zero     *)
(* RequeueAfter; the one-minute requeue only ever comes with a nil error   *)
(* after a status write.                                                   *)
(***************************************************************************)
C12_FailureNeverRequeues ==
  \A r \in Resources :
    /\ result[r].err # "nil" =>
         /\ pc[r] = "Idle"
         /\ result[r].outcome = "returned"
         /\ result[r].RequeueAfter = 0
    /\ result[r].RequeueAfter # 0 =>
         /\ result[r].err = "nil"
         /\ result[r].outcome = "returned"
         /\ writes[r] = 1

\* the status write failed after a machine had been mapped in memory
C12_Witness ==
  \E r \in Resources :
    /\ result[r].err = "UpdateErr"
    /\ result[r].RequeueAfter = 0
    /\ Matches(r) # {}
    /\ node[r].Status # store[r].Status

(***************************************************************************)
(* C13: when an invocation commits after retrieving the same machines as   *)
(* the invocation right before it, which committed too, the status it      *)
(* writes is the status the earlier one wrote.                             *)
(***************************************************************************)
C13_SecondCycleSameStatus ==
  \A r \in Resources :
    (Committed(r) /\ prev[r].committed /\ prev[r].vms = vms[r]) =>
      store[r].Status = prior[r]

\* two committed invocations in a row on the same matched machine
C13_Witness ==
  \E r \in Resources :
    /\ Committed(r)
    /\ prev[r].committed /\ prev[r].vms = vms[r]
    /\ Matches(r) # {}
    /\ store[r].Status.VMTotalCPU > 0
    /\ store[r].Status = prior[r]

(***************************************************************************)
(* Concurrent reconciliation: the manager runs the invocations of          *)
(* different NodeInfo resources on different workers, all through the one  *)
(* client main handed to the reconciler (main.go, lines 207-215).          *)
(***************************************************************************)
\* two NodeInfo resources with different target names
ConcResources == {"nodeinfo-a", "nodeinfo-b"}

\* the target name of each of them
ConcNodename(r) == IF r = "nodeinfo-a" THEN "node-a" ELSE "node-b"

\* the inventories the two are reconciled against; none changes meanwhile
ConcInventories ==
  { <<VM("node-a", 1, <<RefStd>>), VM("node-b", 2, <<RefStd>>)>>,
    <<VM("node-b", 2, <<RefStd>>), VM("node-a", 2, <<RefDvs>>)>>,
    <<VM("node-a", 1, <<RefTrunk>>), VM("node-b", 2, <<RefStd>>)>>,
    <<VM("node-a", 1, <<RefStd, RefDvs>>), VM("node-b", 2, <<RefStd>>)>>,
    <<VM("node-a", 1, <<RefOpaque>>), VM("node-a", 1, <<RefStd>>)>> }

InitConc ==
  /\ store = [r \in ConcResources |-> NewNodeInfo(ConcNodename(r))]
  /\ inventory \in ConcInventories
  /\ main = MainRunning
  /\ session = EstablishedSession
  /\ IdleFor(ConcResources)

\* the steps of the invocations, in any interleaving, and the deletion of a
\* resource; the inventory stays as it is
NextConc ==
  \/ \E r \in Resources : GetOk(r)
  \/ \E r \in Resources : GetNotFound(r)
  \/ \E r \in Resources : GetErr(r)
  \/ \E r \in Resources : CreateViewOk(r)
  \/ \E r \in Resources : CreateViewErr(r)
  \/ \E r \in Resources : RetrieveOk(r)
  \/ \E r \in Resources : RetrieveErr(r)
  \/ \E r \in Resources : SkipVM(r)
  \/ \E r \in Resources : MatchVM(r)
  \/ \E r \in Resources : StandardRetrieve(r)
  \/ \E r \in Resources : StandardRetrieveErr(r)
  \/ \E r \in Resources : DistributedRetrieve(r)
  \/ \E r \in Resources : DistributedRetrieveErr(r)
  \/ \E r \in Resources : VlanAssertPanic(r)
  \/ \E r \in Resources : LoadPanic(r)
  \/ \E r \in Resources : OtherRef(r)
  \/ \E r \in Resources : RefsDone(r)
  \/ \E r \in Resources : RangeDone(r)
  \/ \E r \in Resources : UpdateOk(r)
  \/ \E r \in Resources : UpdateErr(r)
  \/ \E r \in Resources : DeleteResource(r)

SpecConc == InitConc /\ [][NextConc]_vars

\* lines 134-175 panic on this machine when every call succeeds: some
\* reference of a known type is reached with several references to load or
\* with a port group that fails the type assertions
PanicsOn(vm) ==
  \E n \in 1..Len(vm.Network) :
    /\ vm.Network[n].Type \in {"Network", "DistributedVirtualPortgroup"}
    /\ \/ ~LoadsOne(vm.Network)
       \/ /\ vm.Network[n].Type = "DistributedVirtualPortgroup"
          /\ ~VlanIdSpecAsserted(NetworkObject(vm.Network[1]))

\* an invocation running alone on these machines for this name panics
AlonePanics(vmseq, name) ==
  \E k \in 1..Len(vmseq) : vmseq[k].Name = name /\ PanicsOn(vmseq[k])

(***************************************************************************)
(* C14: with several resources of different target names reconciled        *)
(* concurrently against one inventory, in every interleaving each          *)
(* invocation ends as it would alone on what it read: it panics exactly    *)
(* where a lone run panics, it commits the status a lone run maps from     *)
(* its own prior status, and the stored status of a resource is changed    *)
(* by no invocation but its own.                                           *)
(***************************************************************************)
C14_ConcurrentAsAlone ==
  \A r \in Resources :
    /\ i[r] >= 1 => vms[r] = inventory
    /\ writes[r] = 0 => store[r].Status = prior[r]
    /\ (pc[r] = "Idle" /\ result[r].outcome = "panic") =>
         AlonePanics(vms[r], node[r].Spec.Nodename)
    /\ pc[r] = "Update" =>
         /\ ~AlonePanics(vms[r], node[r].Spec.Nodename)
         /\ node[r].Status = MappedAll(prior[r], vms[r], node[r].Spec.Nodename)
    /\ Committed(r) =>
         /\ ~AlonePanics(vms[r], node[r].Spec.Nodename)
         /\ store[r].Status = MappedAll(prior[r], vms[r], node[r].Spec.Nodename)

\* the invocation for node-a created its view after the one for node-b and
\* committed a port group while the one for node-b, holding a standard
\* network in memory, had not written yet
C14_Witness ==
  /\ Resources = ConcResources
  /\ Committed("nodeinfo-a")
  /\ store["nodeinfo-a"].Status.SwitchType = "Distributed"
  /\ pc["nodeinfo-b"] = "Update"
  /\ node["nodeinfo-b"].Status.SwitchType = "Standard"
  /\ store["nodeinfo-b"].Status = ZeroStatus
  /\ openViews = {1} /\ nextView = 3

(***************************************************************************)
(* main and vlogin (main.go): the start of the process.                    *)
(***************************************************************************)
\* a step of main: nothing of the reconcilers or of their environment moves
MainStep(m, sess) ==
  /\ main' = m
  /\ session' = sess
  /\ UNCHANGED <<store, inventory, invChanges, openViews, nextView, pc, node,
                 vvm, vms, i, j, cycles, prior, writes, result, ctxDone, prev>>

\* "os.Exit(1)" after the call named by step failed
Exit(step) ==
  MainStep([main EXCEPT !.pc = "Exited", !.exit = 1, !.failed = step], session)

\* main goes on to the next call
Goto(next) == MainStep([main EXCEPT !.pc = next], session)

\* lines 144-155: ctrl.NewManager
NewManagerOk == main.pc = "NewManager" /\ Goto("ParseURL")
NewManagerErr == main.pc = "NewManager" /\ Exit("NewManager")

\* vlogin, lines 78-88: soap.ParseURL
ParseURLOk == main.pc = "ParseURL" /\ Goto("Login")
ParseURLErr == main.pc = "ParseURL" /\ Exit("ParseURL")

\* vlogin, lines 97-111: the login of c1 through the session cache
LoginOk ==
  /\ main.pc = "Login"
  /\ MainStep([main EXCEPT !.pc = "NewClient"],
              [session EXCEPT !.c1 = TRUE, !.logins = @ + 1])

\* LoginErr with the os.Exit of line 114 lost: the error is logged only
LoginErrContinues == main.pc = "Login" /\ Goto("NewClient")

\* vlogin, lines 112-115: the login failed
LoginErr == main.pc = "Login" /\ Exit("Login")

\* vlogin, line 117: govmomi.NewClient gives c2
NewClientOk ==
  /\ main.pc = "NewClient"
  /\ MainStep([main EXCEPT !.pc = "Datacenter"],
              [session EXCEPT !.c2 = TRUE, !.logins = @ + 1])

\* vlogin, lines 119-122: no client
NewClientErr == main.pc = "NewClient" /\ Exit("NewClient")

\* lines 179-191: the default datacenter is looked up, a failure is only logged
DefaultDatacenter == main.pc = "Datacenter" /\ Goto("Setup")

\* lines 195-236: the next reconciler is built around c1 and registered
SetupWithManagerOk ==
  /\ main.pc = "Setup"
  /\ LET n == Cardinality(main.registered) + 1
     IN  MainStep([main EXCEPT !.registered = @ \cup {Controllers[n]},
                               !.pc = IF n = Len(Controllers) THEN "Health"
                                      ELSE "Setup"],
                  session)

\* lines 202-205, 212-215, 222-225, 233-236: registering a reconciler failed
SetupWithManagerErr == main.pc = "Setup" /\ Exit("Setup")

\* lines 239-246: the health and readiness checks
HealthChecksOk == main.pc = "Health" /\ Goto("Running")
HealthChecksErr == main.pc = "Health" /\ Exit("Health")

\* the process from its first statement on, with two NodeInfo resources
InitMain ==
  /\ store = [r \in ConcResources |-> NewNodeInfo(ConcNodename(r))]
  /\ inventory \in ConcInventories
  /\ main = MainAtStart
  /\ session = NoSession
  /\ IdleFor(ConcResources)

\* the steps of main, then those of the invocations the manager dispatches
NextMain ==
  \/ NewManagerOk
  \/ NewManagerErr
  \/ ParseURLOk
  \/ ParseURLErr
  \/ LoginOk
  \/ LoginErr
  \/ NewClientOk
  \/ NewClientErr
  \/ DefaultDatacenter
  \/ SetupWithManagerOk
  \/ SetupWithManagerErr
  \/ HealthChecksOk
  \/ HealthChecksErr
  \/ NextConc

SpecMain == InitMain /\ [][NextMain]_vars

(***************************************************************************)
(* C15: when the URL parsing, the cached-session login or the client       *)
(* creation fails, the process has exited with a non-zero code with no     *)
(* reconciler registered and no invocation started; whenever a reconciler  *)
(* is registered or an invocation has started, both clients exist.         *)
(***************************************************************************)
C15_NoSessionNoReconcile ==
  /\ main.failed \in {"ParseURL", "Login", "NewClient"} =>
       /\ main.pc = "Exited"
       /\ main.exit # 0
       /\ main.registered = {}
       /\ \A r \in Resources : cycles[r] = 0 /\ pc[r] = "Idle"
  /\ (main.registered # {} \/ \E r \in Resources : cycles[r] > 0) =>
       session.c1 /\ session.c2

\* the login went through, the client creation failed, the process is gone
C15_Witness ==
  /\ main.pc = "Exited"
  /\ main.failed = "NewClient"
  /\ main.exit = 1
  /\ session.c1 /\ ~session.c2

(***************************************************************************)
(* C16: every step of every invocation leaves the session as it is, and    *)
(* it is the session vlogin established: both clients, two logins.         *)
(***************************************************************************)
C16_CyclesKeepSession ==
  [][<<pc, node, vvm, vms, i, j, cycles, writes, result>>' #
       <<pc, node, vvm, vms, i, j, cycles, writes, result>>
     => (session' = session /\ session = EstablishedSession)]_vars

\* both resources have been through an invocation, one of them failed in the
\* bulk retrieval, and the session is the one of the start
C16_Witness ==
  /\ main.pc = "Running"
  /\ \A r \in Resources : cycles[r] >= 1 /\ pc[r] = "Idle"
  /\ \E r \in Resources : result[r].err = "RetrieveErr"
  /\ \E r \in Resources : Committed(r)
  /\ session = EstablishedSession

(***************************************************************************)
(* Cancellation: the runtime cancels the context it passed to Reconcile.   *)
(* Line 61 replaces that context by context.Background() before any call,  *)
(* so no step of Reconcile reads ctxDone.                                  *)
(***************************************************************************)
\* the runtime cancels (or the deadline of) the context of a running
\* invocation expires
CancelContext(r) ==
  /\ pc[r] # "Idle"
  /\ ctxDone[r] = "no"
  /\ ctxDone' = [ctxDone EXCEPT ![r] = pc[r]]
  /\ UNCHANGED <<store, inventory, invChanges, openViews, nextView, pc, node,
                 vvm, vms, i, j, cycles, prior, writes, result, main, session,
                 prev>>

NextCancel ==
  \/ Next
  \/ \E r \in Resources : CancelContext(r)

SpecCancel == Init /\ [][NextCancel]_vars

(***************************************************************************)
(* C17: an invocation whose context was cancelled while the bulk retrieval *)
(* was in progress writes no status, and once it is over it has returned   *)
(* an error and its view is gone.                                          *)
(***************************************************************************)
C17_CancelAbortsRetrieval ==
  \A r \in Resources :
    ctxDone[r] = "Retrieve" =>
      /\ writes[r] = 0
      /\ pc[r] = "Idle" =>
           /\ result[r].outcome = "returned"
           /\ result[r].err # "nil"
           /\ vvm[r] = 0

(***************************************************************************)
(* Progress: once Get has returned the resource, the goroutine of an       *)
(* invocation keeps running and every call it makes returns.               *)
(***************************************************************************)
\* a step of the invocation of r after its Get
Step(r) ==
  \/ CreateViewOk(r)
  \/ CreateViewErr(r)
  \/ RetrieveOk(r)
  \/ RetrieveErr(r)
  \/ SkipVM(r)
  \/ MatchVM(r)
  \/ StandardRetrieve(r)
  \/ StandardRetrieveErr(r)
  \/ DistributedRetrieve(r)
  \/ DistributedRetrieveErr(r)
  \/ VlanAssertPanic(r)
  \/ LoadPanic(r)
  \/ OtherRef(r)
  \/ RefsDone(r)
  \/ RangeDone(r)
  \/ UpdateOk(r)
  \/ UpdateErr(r)

\* the resource whose invocations are followed to their end
LiveResources == {"nodeinfo-a"}

\* any inventory of the bounded catalogue; it stays as it is
InitLive ==
  /\ store = [r \in LiveResources |-> NewNodeInfo("node-a")]
  /\ inventory \in Inventories
  /\ main = MainRunning
  /\ session = EstablishedSession
  /\ IdleFor(LiveResources)

\* invocation after invocation, none of which is held up for ever
SpecLive ==
  InitLive /\ [][NextConc]_vars /\ \A r \in LiveResources : WF_vars(Step(r))

\* the phases of the scheduler and the places of Reconcile they stand for:
\* Fetching is lines 87-111, Matching lines 118-179, Committing lines 186-191
PhaseOrder ==
  { <<"Idle", "CreateView">>, <<"CreateView", "Retrieve">>,
    <<"Retrieve", "Range">>, <<"Range", "Update">> }

(***************************************************************************)
(* C18: an invocation goes through Idle, Fetching, Matching, Committing    *)
(* in this order and back to Idle from any of them; a status is written    *)
(* only once its own bulk retrieval has succeeded and the loop over the    *)
(* machines is finished, at most once per invocation; and every            *)
(* invocation that has started is over at some later point.                *)
(***************************************************************************)
C18_PhasesAndTermination ==
  /\ [](\A r \in LiveResources :
          /\ writes[r] <= 1
          /\ (writes[r] = 1 \/ pc[r] = "Update") =>
               (i[r] >= 1 /\ i[r] > Len(vms[r]) /\ j[r] = 0)
          /\ pc[r] \in {"Retrieve", "Range", "Update"} => vvm[r] \in openViews)
  /\ [][\A r \in LiveResources :
          pc'[r] # pc[r] =>
            (pc'[r] = "Idle" \/ <<pc[r], pc'[r]>> \in PhaseOrder)]_vars
  /\ \A r \in LiveResources : (pc[r] # "Idle") ~> (pc[r] = "Idle")

\* a second invocation went through all phases on a matched machine, wrote
\* once and is idle again
C18_Witness ==
  \E r \in LiveResources :
    /\ Committed(r) /\ Matches(r) # {} /\ i[r] = Len(vms[r]) + 1
    /\ cycles[r] = 2 /\ nextView = 3 /\ openViews = {}

(***************************************************************************)
(* C19: when every call of an invocation succeeds and the last machine     *)
(* carrying the target name has several network references, the last of    *)
(* them of a known type, the invocation commits, and the committed         *)
(* SwitchType, NetName and NetOverallStatus are those of that last         *)
(* reference.                                                              *)
(***************************************************************************)
\* the last reference of the machine
LastRef(vm) == vm.Network[Len(vm.Network)]

C19_LastReferenceCommitted ==
  \A r \in Resources :
    (/\ pc[r] = "Idle"
     /\ result[r].outcome # "none"
     /\ result[r].err = "nil"
     /\ Matches(r) # {}
     /\ i[r] >= Last(Matches(r))
     /\ Len(vms[r][Last(Matches(r))].Network) >= 2
     /\ LastRef(vms[r][Last(Matches(r))]).Type
          \in {"Network", "DistributedVirtualPortgroup"}) =>
      LET ref == LastRef(vms[r][Last(Matches(r))])
      IN  /\ Committed(r)
          /\ store[r].Status.SwitchType =
               (IF ref.Type = "Network" THEN "Standard" ELSE "Distributed")
          /\ store[r].Status.NetName = NetworkObject(ref).Name
          /\ store[r].Status.NetOverallStatus = NetworkObject(ref).OverallStatus

(***************************************************************************)
(* C20: an invocation that ends at its Get creates no view, retrieves      *)
(* nothing from the inventory and leaves the store as it is; it returns    *)
(* a zero requeue interval, and it returns nil only when the resource no   *)
(* longer exists, otherwise the error of Get.                              *)
(***************************************************************************)
C20_GetFailureEndsQuietly ==
  [][\A r \in Resources :
       (pc[r] = "Idle" /\ cycles'[r] = cycles[r] + 1 /\ pc'[r] = "Idle") =>
         /\ openViews' = openViews
         /\ nextView' = nextView
         /\ store' = store
         /\ vvm'[r] = 0
         /\ vms'[r] = <<>>
         /\ writes'[r] = 0
         /\ result'[r].outcome = "returned"
         /\ result'[r].RequeueAfter = 0
         /\ result'[r].err \in {"nil", "GetErr"}
         /\ result'[r].err = "nil" => ~store[r].exists]_vars

\* the resource was deleted after a committed invocation; the next
\* invocation found nothing and returned nil with no requeue
C20_Witness ==
  \E r \in Resources :
    /\ pc[r] = "Idle" /\ cycles[r] = 2
    /\ ~store[r].exists
    /\ result[r] = [outcome |-> "returned", err |-> "nil", RequeueAfter |-> 0]
    /\ prior[r] # ZeroStatus
    /\ vms[r] = <<>> /\ writes[r] = 0
    /\ nextView = 2 /\ openViews = {}

====
